---- MODULE Spec2Model ----
(***************************************************************************)
(* Model of src/main.py: the POST /process relay and its JSON repair       *)
(* heuristic extract_json_text.                                            *)
(*                                                                         *)
(* Strings are sequences of one-character strings.  Indices of the code    *)
(* (start, i) keep Python's 0-based values; At(s, i) reads s[i].           *)
(***************************************************************************)
EXTENDS Integers, Sequences, FiniteSets, TLC

\* ------------------------------------------------------------------------
\* Bounds
\* ------------------------------------------------------------------------

\* Longest remote reply / function input, counted in pieces of Pieces.
MaxPieces == 3

\* ------------------------------------------------------------------------
\* Input alphabet: replies are concatenations of these fragments.
\* ------------------------------------------------------------------------

\* The grave accent U+0060, which a TLA+ string cannot contain.
Backtick == "BACKTICK"

Fence == <<Backtick, Backtick, Backtick>>

FenceJson == Fence \o <<"j", "s", "o", "n">>

NoneTok == <<"N", "o", "n", "e">>

NullTok == <<"n", "u", "l", "l">>

Pieces ==
    { <<"{", "\"", "k", "\"", ":", "\"">>,
      <<"\"", "}">>,
      <<"\"", ",", "\"", "k", "\"", ":", "\"">>,
      <<"{">>,
      <<"}">>,
      <<"{", "}">>,
      <<"'">>,
      NoneTok,
      Fence,
      FenceJson,
      <<Backtick>>,
      <<" ">>,
      <<"\n">>,
      <<"k">>,
      NullTok,
      <<"N", "o">>,
      <<"n", "e">> }

RECURSIVE Flatten(_)
Flatten(ps) ==
    IF ps = <<>> THEN <<>> ELSE Head(ps) \o Flatten(Tail(ps))

Contents ==
    { Flatten(ps) : ps \in UNION { [1..n -> Pieces] : n \in 0..MaxPieces } }

\* ------------------------------------------------------------------------
\* Python str operations used by the code
\* ------------------------------------------------------------------------

Whitespace == {" ", "\n"}

Min(S) == CHOOSE x \in S : \A y \in S : x <= y

Max(S) == CHOOSE x \in S : \A y \in S : x >= y

\* str.strip()
Strip(s) ==
    LET keep == { k \in 1..Len(s) : s[k] \notin Whitespace }
    IN  IF keep = {} THEN <<>> ELSE SubSeq(s, Min(keep), Max(keep))

\* str.replace(old, new): leftmost, non-overlapping occurrences
RECURSIVE ReplaceFrom(_, _, _, _)
ReplaceFrom(s, old, new, p) ==
    IF p > Len(s) THEN <<>>
    ELSE IF p + Len(old) - 1 <= Len(s) /\ SubSeq(s, p, p + Len(old) - 1) = old
         THEN new \o ReplaceFrom(s, old, new, p + Len(old))
         ELSE <<s[p]>> \o ReplaceFrom(s, old, new, p + 1)

Replace(s, old, new) == ReplaceFrom(s, old, new, 1)

\* str.find(c) for a one-character needle: 0-based index, or -1
Find(s, c) ==
    LET hits == { k \in 1..Len(s) : s[k] = c }
    IN  IF hits = {} THEN -1 ELSE Min(hits) - 1

\* s[i] with Python's 0-based index
At(s, i) == s[i + 1]

\* s[a:b] with Python's 0-based, end-exclusive slice
Slice(s, a, b) == SubSeq(s, a + 1, b)

\* ------------------------------------------------------------------------
\* json.loads, restricted to the characters of Pieces: whitespace, objects,
\* strings without escapes, and the literal null.  The value is kept as its
\* compact serialisation, which is how JSONResponse renders it.
\* ------------------------------------------------------------------------

JsonWhitespace == {" ", "\n"}

ParseFail == [ok |-> FALSE, next |-> 0, val |-> <<>>]

\* first index >= p that is not JSON whitespace (Len(s) + 1 at the end)
RECURSIVE SkipWs(_, _)
SkipWs(s, p) ==
    IF p <= Len(s) /\ s[p] \in JsonWhitespace THEN SkipWs(s, p + 1) ELSE p

\* a string starting at the quote s[p]; control characters are rejected
ParseString(s, p) ==
    LET closes == { q \in (p + 1)..Len(s) : s[q] = "\"" }
    IN  IF p > Len(s) \/ s[p] # "\"" \/ closes = {} THEN ParseFail
        ELSE LET q == Min(closes)
             IN  IF \E r \in (p + 1)..(q - 1) : s[r] = "\n" THEN ParseFail
                 ELSE [ok |-> TRUE, next |-> q + 1, val |-> SubSeq(s, p, q)]

\* dict assignment: a repeated key keeps its first position, last value
SetMember(members, key, val) ==
    IF \E m \in 1..Len(members) : members[m].key = key
    THEN [m \in 1..Len(members) |->
            IF members[m].key = key THEN [key |-> key, val |-> val]
            ELSE members[m]]
    ELSE Append(members, [key |-> key, val |-> val])

RECURSIVE DumpMembers(_)
DumpMembers(members) ==
    IF members = <<>> THEN <<>>
    ELSE Head(members).key \o <<":">> \o Head(members).val
         \o (IF Len(members) > 1 THEN <<",">> ELSE <<>>)
         \o DumpMembers(Tail(members))

RECURSIVE ParseValue(_, _)
RECURSIVE ParseMembers(_, _, _)

\* after "{" or ",": key, ":", value, then "," or "}"
ParseMembers(s, p, members) ==
    LET k == ParseString(s, p)
    IN  IF ~k.ok THEN ParseFail
        ELSE LET c == SkipWs(s, k.next)
             IN  IF c > Len(s) \/ s[c] # ":" THEN ParseFail
                 ELSE LET v == ParseValue(s, SkipWs(s, c + 1))
                      IN  IF ~v.ok THEN ParseFail
                          ELSE LET e == SkipWs(s, v.next)
                                   ms == SetMember(members, k.val, v.val)
                               IN  IF e > Len(s) THEN ParseFail
                                   ELSE IF s[e] = "}"
                                   THEN [ok |-> TRUE, next |-> e + 1,
                                         val |-> <<"{">> \o DumpMembers(ms) \o <<"}">>]
                                   ELSE IF s[e] = ","
                                   THEN ParseMembers(s, SkipWs(s, e + 1), ms)
                                   ELSE ParseFail

ParseValue(s, p) ==
    IF p > Len(s) THEN ParseFail
    ELSE IF s[p] = "\"" THEN ParseString(s, p)
    ELSE IF s[p] = "{"
         THEN LET q == SkipWs(s, p + 1)
              IN  IF q <= Len(s) /\ s[q] = "}"
                  THEN [ok |-> TRUE, next |-> q + 1, val |-> <<"{", "}">>]
                  ELSE ParseMembers(s, q, <<>>)
    ELSE IF p + 3 <= Len(s) /\ SubSeq(s, p, p + 3) = NullTok
         THEN [ok |-> TRUE, next |-> p + 4, val |-> NullTok]
    ELSE ParseFail

\* json.loads(s): one value, whitespace around it, nothing else
JsonLoads(s) ==
    LET v == ParseValue(s, SkipWs(s, 1))
    IN  IF v.ok /\ SkipWs(s, v.next) = Len(s) + 1 THEN v ELSE ParseFail

\* ------------------------------------------------------------------------
\* State
\* ------------------------------------------------------------------------

VARIABLES
    HF_API_URL,       \* module globals, read from the environment at import
    HF_API_TOKEN,
    HF_MODEL_NAME,
    request,          \* the body of the POST /process request being served
    pc,               \* position of process in its body
    hf_response,      \* what requests.post produced
    raw_text,         \* local of process
    ex_pc,            \* position of extract_json_text
    text,             \* locals of extract_json_text
    start,
    i,
    brace_count,
    ex_input,         \* the argument extract_json_text was called with
    candidate,        \* its return value
    response,         \* the HTTP response of the request
    trace             \* steps of process executed for this request, in order

env_vars == <<HF_API_URL, HF_API_TOKEN, HF_MODEL_NAME>>

req_vars == <<request, pc, hf_response, raw_text, response, trace>>

ex_vars == <<ex_pc, text, start, i, brace_count, ex_input, candidate>>

vars == <<env_vars, req_vars, ex_vars>>

\* os.environ.get: None when the variable is not set, else its value
Unset == "UNSET"

EnvValues == {Unset, "", "v"}

\* Python truthiness of `not x` for None and str
Falsy(x) == x = Unset \/ x = ""

\* Bodies of POST /process: without a text field, or with a text string
Requests ==
    { [has_text |-> FALSE, text |-> <<>>],
      [has_text |-> TRUE,  text |-> <<>>],
      [has_text |-> TRUE,  text |-> <<" ">>],
      [has_text |-> TRUE,  text |-> <<"k">>] }

\* Outcomes of requests.post(...) followed by raise_for_status()
NoReply == [exc |-> "", err |-> <<>>, shape |-> "", content |-> <<>>]

TransportFailures ==
    { [exc |-> "ConnectionError", err |-> <<"connection refused">>,
       shape |-> "", content |-> <<>>],
      [exc |-> "Timeout", err |-> <<"read timed out">>,
       shape |-> "", content |-> <<>>],
      [exc |-> "HTTPError", err |-> <<"503 Server Error">>,
       shape |-> "", content |-> <<>>] }

\* Replies that result["choices"][0]["message"]["content"].strip() rejects
BadShapes == {"not_json", "missing_path", "content_not_str"}

Replies ==
    TransportFailures
    \cup { [exc |-> "", err |-> <<>>, shape |-> sh, content |-> <<>>] :
             sh \in BadShapes }
    \cup { [exc |-> "", err |-> <<>>, shape |-> "content_str", content |-> c] :
             c \in Contents }

NoResponse == [status |-> 0, msg |-> "", arg |-> <<>>, body |-> <<>>]

\* raise HTTPException(status_code, detail = msg + arg)
HTTPException(status, msg, arg) ==
    [status |-> status, msg |-> msg, arg |-> arg, body |-> <<>>]

\* JSONResponse(content)
JSONResponse(val) ==
    [status |-> 200, msg |-> "", arg |-> <<>>, body |-> val]

\* FastAPI's reply when the body does not validate against TextRequest
RequestValidationError ==
    [status |-> 422, msg |-> "Field required", arg |-> <<>>, body |-> <<>>]

\* the server's reply when an exception leaves process
InternalServerError ==
    [status |-> 500, msg |-> "Internal Server Error", arg |-> <<>>, body |-> <<>>]

EnvDetail ==
    "HF_API_URL, HF_API_TOKEN, and HF_MODEL_NAME environment variables must be set."

TextDetail == "Missing \"text\" field in request body."

TransportDetail == "HuggingFace request failed: "

ShapeDetail == "Failed to parse response from HuggingFace Chat API."

ParseDetail == "Failed to parse JSON from model output. Raw output: "

ExIdle ==
    /\ ex_pc = "idle"
    /\ text = <<>>
    /\ start = -1
    /\ i = 0
    /\ brace_count = 0
    /\ ex_input = <<>>
    /\ candidate = <<>>

Init ==
    /\ HF_API_URL \in EnvValues
    /\ HF_API_TOKEN \in EnvValues
    /\ HF_MODEL_NAME \in EnvValues
    /\ request \in Requests
    /\ pc = "validate_body"
    /\ hf_response = NoReply
    /\ raw_text = <<>>
    /\ response = NoResponse
    /\ trace = <<>>
    /\ ExIdle

\* ------------------------------------------------------------------------
\* ensure_env_vars
\* ------------------------------------------------------------------------

\* variant: HF_MODEL_NAME is left out of the check
ensure_env_vars_TwoOnly ==
    Falsy(HF_API_URL) \/ Falsy(HF_API_TOKEN)

\* TRUE when ensure_env_vars raises RuntimeError
ensure_env_vars ==
    Falsy(HF_API_URL) \/ Falsy(HF_API_TOKEN) \/ Falsy(HF_MODEL_NAME)

\* ------------------------------------------------------------------------
\* process
\* ------------------------------------------------------------------------

Finish(resp, step) ==
    /\ response' = resp
    /\ trace' = Append(trace, step)
    /\ pc' = "done"

\* request: TextRequest -- the body is validated before process runs
process_validate_body ==
    /\ pc = "validate_body"
    /\ IF ~request.has_text
       THEN Finish(RequestValidationError, "body_rejected")
       ELSE /\ pc' = "ensure_env"
            /\ trace' = Append(trace, "body_ok")
            /\ UNCHANGED response
    /\ UNCHANGED <<env_vars, request, hf_response, raw_text, ex_vars>>

process_ensure_env ==
    /\ pc = "ensure_env"
    /\ IF ensure_env_vars
       THEN Finish(HTTPException(500, EnvDetail, <<>>), "env_missing")
       ELSE /\ pc' = "check_text"
            /\ trace' = Append(trace, "env_ok")
            /\ UNCHANGED response
    /\ UNCHANGED <<env_vars, request, hf_response, raw_text, ex_vars>>

\* variant: the empty-text check is missing
process_check_text_NoCheck ==
    /\ pc = "check_text"
    /\ pc' = "post"
    /\ trace' = Append(trace, "text_ok")
    /\ UNCHANGED <<response, env_vars, request, hf_response, raw_text, ex_vars>>

process_check_text ==
    /\ pc = "check_text"
    /\ IF request.text = <<>>
       THEN Finish(HTTPException(400, TextDetail, <<>>), "text_empty")
       ELSE /\ pc' = "post"
            /\ trace' = Append(trace, "text_ok")
            /\ UNCHANGED response
    /\ UNCHANGED <<env_vars, request, hf_response, raw_text, ex_vars>>

\* variant: the transport error message is left out of the detail
process_post_NoMessage ==
    /\ pc = "post"
    /\ \E reply \in Replies :
         /\ hf_response' = reply
         /\ IF reply.exc # ""
            THEN Finish(HTTPException(502, TransportDetail, <<>>), "post")
            ELSE /\ pc' = "navigate"
                 /\ trace' = Append(trace, "post")
                 /\ UNCHANGED response
    /\ UNCHANGED <<env_vars, request, raw_text, ex_vars>>

\* variant: a failed call is retried once
process_post_Retry ==
    /\ pc = "post"
    /\ \E reply \in Replies :
         /\ hf_response' = reply
         /\ IF reply.exc # "" /\ trace[Len(trace)] = "post"
            THEN Finish(HTTPException(502, TransportDetail, reply.err), "post")
            ELSE IF reply.exc # ""
            THEN /\ trace' = Append(trace, "post")
                 /\ UNCHANGED <<pc, response>>
            ELSE /\ pc' = "navigate"
                 /\ trace' = Append(trace, "post")
                 /\ UNCHANGED response
    /\ UNCHANGED <<env_vars, request, raw_text, ex_vars>>

process_post ==
    /\ pc = "post"
    /\ \E reply \in Replies :
         /\ hf_response' = reply
         /\ IF reply.exc # ""
            THEN Finish(HTTPException(502, TransportDetail, reply.err), "post")
            ELSE /\ pc' = "navigate"
                 /\ trace' = Append(trace, "post")
                 /\ UNCHANGED response
    /\ UNCHANGED <<env_vars, request, raw_text, ex_vars>>

process_navigate ==
    /\ pc = "navigate"
    /\ IF hf_response.shape # "content_str"
       THEN /\ Finish(HTTPException(502, ShapeDetail, <<>>), "navigate")
            /\ UNCHANGED <<raw_text, ex_vars>>
       ELSE /\ raw_text' = Strip(hf_response.content)
            /\ pc' = "extract"
            /\ trace' = Append(trace, "navigate")
            /\ ex_pc' = "entry"
            /\ ex_input' = Strip(hf_response.content)
            /\ UNCHANGED <<response, text, start, i, brace_count, candidate>>
    /\ UNCHANGED <<env_vars, request, hf_response>>

\* ------------------------------------------------------------------------
\* extract_json_text
\* ------------------------------------------------------------------------

\* variant: the quote substitution runs the wrong way round
Substitute_QuotesReversed(s) ==
    Replace(Replace(Strip(Replace(Replace(s, FenceJson, <<>>), Fence, <<>>)),
                    NoneTok, NullTok),
            <<"\"">>, <<"'">>)

\* lines 46 and 49: the fence removal, trim and substitutions
Substitute(s) ==
    Replace(Replace(Strip(Replace(Replace(s, FenceJson, <<>>), Fence, <<>>)),
                    NoneTok, NullTok),
            <<"'">>, <<"\"">>)

\* variant: the scan starts one character after the first brace
extract_entry_SkipFirst ==
    /\ ex_pc = "entry"
    /\ IF ex_input = <<>>
       THEN /\ ex_pc' = "raised"
            /\ UNCHANGED <<text, start, i, brace_count, candidate>>
       ELSE LET t == Substitute(ex_input)
                st == Find(t, "{")
            IN  /\ text' = t
                /\ start' = st
                /\ IF st = -1
                   THEN /\ candidate' = Strip(t)
                        /\ ex_pc' = "returned"
                        /\ UNCHANGED <<i, brace_count>>
                   ELSE /\ brace_count' = 0
                        /\ i' = st + 1
                        /\ ex_pc' = "scan"
                        /\ UNCHANGED candidate
    /\ UNCHANGED <<env_vars, req_vars, ex_input>>

extract_entry ==
    /\ ex_pc = "entry"
    /\ IF ex_input = <<>>
       THEN /\ ex_pc' = "raised"
            /\ UNCHANGED <<text, start, i, brace_count, candidate>>
       ELSE LET t == Substitute(ex_input)
                st == Find(t, "{")
            IN  /\ text' = t
                /\ start' = st
                /\ IF st = -1
                   THEN /\ candidate' = Strip(t)
                        /\ ex_pc' = "returned"
                        /\ UNCHANGED <<i, brace_count>>
                   ELSE /\ brace_count' = 0
                        /\ i' = st
                        /\ ex_pc' = "scan"
                        /\ UNCHANGED candidate
    /\ UNCHANGED <<env_vars, req_vars, ex_input>>

\* variant: the returned slice stops one character early
extract_scan_OffByOne ==
    /\ ex_pc = "scan"
    /\ i < Len(text)
    /\ IF At(text, i) = "{"
       THEN /\ brace_count' = brace_count + 1
            /\ i' = i + 1
            /\ UNCHANGED <<ex_pc, candidate>>
       ELSE IF At(text, i) = "}"
       THEN /\ brace_count' = brace_count - 1
            /\ IF brace_count - 1 = 0
               THEN /\ candidate' = Strip(Slice(text, start, i))
                    /\ ex_pc' = "returned"
                    /\ UNCHANGED i
               ELSE /\ i' = i + 1
                    /\ UNCHANGED <<ex_pc, candidate>>
       ELSE /\ i' = i + 1
            /\ UNCHANGED <<ex_pc, candidate, brace_count>>
    /\ UNCHANGED <<env_vars, req_vars, text, start, ex_input>>

\* one iteration of the for loop
extract_scan ==
    /\ ex_pc = "scan"
    /\ i < Len(text)
    /\ IF At(text, i) = "{"
       THEN /\ brace_count' = brace_count + 1
            /\ i' = i + 1
            /\ UNCHANGED <<ex_pc, candidate>>
       ELSE IF At(text, i) = "}"
       THEN /\ brace_count' = brace_count - 1
            /\ IF brace_count - 1 = 0
               THEN /\ candidate' = Strip(Slice(text, start, i + 1))
                    /\ ex_pc' = "returned"
                    /\ UNCHANGED i
               ELSE /\ i' = i + 1
                    /\ UNCHANGED <<ex_pc, candidate>>
       ELSE /\ i' = i + 1
            /\ UNCHANGED <<ex_pc, candidate, brace_count>>
    /\ UNCHANGED <<env_vars, req_vars, text, start, ex_input>>

\* the loop ran off the end of text
extract_fallthrough ==
    /\ ex_pc = "scan"
    /\ i = Len(text)
    /\ candidate' = Strip(text)
    /\ ex_pc' = "returned"
    /\ UNCHANGED <<env_vars, req_vars, text, start, i, brace_count, ex_input>>

\* ------------------------------------------------------------------------
\* process, after extract_json_text returned or raised
\* ------------------------------------------------------------------------

\* variant: the detail carries the repaired candidate, not the raw output
process_loads_CandidateInDetail ==
    /\ pc = "extract"
    /\ ex_pc \in {"returned", "raised"}
    /\ IF ex_pc = "raised"
       THEN Finish(InternalServerError, "extract")
       ELSE LET extracted_data == JsonLoads(candidate)
            IN  IF extracted_data.ok
                THEN Finish(JSONResponse(extracted_data.val), "extract")
                ELSE Finish(HTTPException(502, ParseDetail, candidate), "extract")
    /\ UNCHANGED <<env_vars, request, hf_response, raw_text, ex_vars>>

process_loads ==
    /\ pc = "extract"
    /\ ex_pc \in {"returned", "raised"}
    /\ IF ex_pc = "raised"
       THEN Finish(InternalServerError, "extract")
       ELSE LET extracted_data == JsonLoads(candidate)
            IN  IF extracted_data.ok
                THEN Finish(JSONResponse(extracted_data.val), "extract")
                ELSE Finish(HTTPException(502, ParseDetail, raw_text), "extract")
    /\ UNCHANGED <<env_vars, request, hf_response, raw_text, ex_vars>>

\* the next request arrives; nothing but the module globals is kept
next_request ==
    /\ pc = "done"
    /\ request' \in Requests
    /\ pc' = "validate_body"
    /\ hf_response' = NoReply
    /\ raw_text' = <<>>
    /\ response' = NoResponse
    /\ trace' = <<>>
    /\ ex_pc' = "idle"
    /\ text' = <<>>
    /\ start' = -1
    /\ i' = 0
    /\ brace_count' = 0
    /\ ex_input' = <<>>
    /\ candidate' = <<>>
    /\ UNCHANGED env_vars

Next ==
    \/ process_validate_body
    \/ process_ensure_env
    \/ process_check_text
    \/ process_post
    \/ process_navigate
    \/ extract_entry
    \/ extract_scan
    \/ extract_fallthrough
    \/ process_loads
    \/ next_request

Spec == Init /\ [][Next]_vars

\* ------------------------------------------------------------------------
\* extract_json_text on its own, applied to every input of Contents
\* ------------------------------------------------------------------------

InitExtract ==
    /\ HF_API_URL = "v"
    /\ HF_API_TOKEN = "v"
    /\ HF_MODEL_NAME = "v"
    /\ request = [has_text |-> TRUE, text |-> <<"k">>]
    /\ pc = "caller"
    /\ hf_response = NoReply
    /\ raw_text = <<>>
    /\ response = NoResponse
    /\ trace = <<>>
    /\ ex_pc = "entry"
    /\ ex_input \in Contents
    /\ text = <<>>
    /\ start = -1
    /\ i = 0
    /\ brace_count = 0
    /\ candidate = <<>>

NextExtract ==
    \/ extract_entry
    \/ extract_scan
    \/ extract_fallthrough

SpecExtract == InitExtract /\ [][NextExtract]_vars

\* ------------------------------------------------------------------------
\* Vocabulary of the properties
\* ------------------------------------------------------------------------

Count(seq, x) == Cardinality({ n \in 1..Len(seq) : seq[n] = x })

Done == pc = "done"

EmptyText == request.has_text /\ request.text = <<>>

\* each of the three settings is set and non-empty
ConfigComplete ==
    \A v \in {HF_API_URL, HF_API_TOKEN, HF_MODEL_NAME} : v \notin {Unset, ""}

IsConfigError(r) == r.status = 500 /\ r.msg = EnvDetail

\* the handler's 400, and the 422 the request model answers with
IsValidationError(r) == r.status \in {400, 422}

IsTransportError(r) == r.status = 502 /\ r.msg = TransportDetail

IsShapeError(r) == r.status = 502 /\ r.msg = ShapeDetail

IsParseError(r) == r.status = 502 /\ r.msg = ParseDetail

Documented(r) ==
    \/ IsValidationError(r)
    \/ IsConfigError(r)
    \/ IsTransportError(r)
    \/ IsShapeError(r)
    \/ IsParseError(r)
    \/ r.status = 200

HasSub(s, sub) ==
    \E p \in 1..(Len(s) - Len(sub) + 1) : SubSeq(s, p, p + Len(sub) - 1) = sub

\* position p of s lies inside a string literal (no escapes in the alphabet)
InsideString(s, p) ==
    Cardinality({ q \in 1..(p - 1) : s[q] = "\"" }) % 2 = 1

\* s is the text of one strict JSON object
IsStrictJsonObject(s) ==
    /\ JsonLoads(s).ok
    /\ Strip(s) # <<>>
    /\ Strip(s)[1] = "{"

\* number of "{" minus number of "}" among s[a..b] (1-based, inclusive)
Balance(s, a, b) ==
    Cardinality({ q \in a..b : s[q] = "{" })
    - Cardinality({ q \in a..b : s[q] = "}" })

FirstBrace(s) == Min({ q \in 1..Len(s) : s[q] = "{" })

\* positions at which the count taken from the first "{" is back at zero
ClosePositions(s) ==
    IF \A q \in 1..Len(s) : s[q] # "{" THEN {}
    ELSE { q \in FirstBrace(s)..Len(s) : Balance(s, FirstBrace(s), q) = 0 }

\* ------------------------------------------------------------------------
\* C1
\* ------------------------------------------------------------------------

\* C1 (as stated): a request whose text is empty or absent ends in the
\* validation error, whatever the configuration.
C1_AsStated ==
    (Done /\ (EmptyText \/ ~request.has_text)) => IsValidationError(response)

\* C1 (amended): an empty text ends in the 400 validation error when the
\* three settings are set and in the configuration error when one is missing;
\* an absent text is rejected as invalid whatever the configuration.
C1_Amended ==
    Done =>
      /\ (EmptyText /\ ConfigComplete) =>
            response = HTTPException(400, TextDetail, <<>>)
      /\ (EmptyText /\ ~ConfigComplete) => IsConfigError(response)
      /\ ~request.has_text => response = RequestValidationError

C1_Witness ==
    /\ Done
    /\ EmptyText
    /\ ConfigComplete
    /\ response.status = 400

\* ------------------------------------------------------------------------
\* C2
\* ------------------------------------------------------------------------

\* C2 (as stated): with a setting unset or empty, every request ends in the
\* configuration error, whatever its body, and makes no outbound call.
C2_AsStated ==
    (Done /\ ~ConfigComplete) =>
        (IsConfigError(response) /\ Count(trace, "post") = 0)

\* C2 (amended): with a setting unset or empty, every request whose body
\* carries a text string (empty included) ends in the configuration error and
\* makes no outbound call; a body without text is rejected before the check.
C2_Amended ==
    (Done /\ ~ConfigComplete) =>
        /\ Count(trace, "post") = 0
        /\ request.has_text => response = HTTPException(500, EnvDetail, <<>>)
        /\ ~request.has_text => response = RequestValidationError

C2_Witness ==
    /\ Done
    /\ HF_API_URL = "v"
    /\ HF_API_TOKEN = "v"
    /\ HF_MODEL_NAME = ""
    /\ request.has_text
    /\ request.text # <<>>
    /\ IsConfigError(response)

\* ------------------------------------------------------------------------
\* C3
\* ------------------------------------------------------------------------

\* C3: every request ends in one of the documented outcomes (validation,
\* configuration, transport, reply shape, repair/parse error, or 200).
C3_DocumentedOutcome ==
    Done => Documented(response)

\* ------------------------------------------------------------------------
\* C4
\* ------------------------------------------------------------------------

\* C4: when the outbound call fails at the transport level the request ends
\* in a 502 whose detail carries the transport error message, and neither the
\* reply navigation nor the repair step runs.
C4_TransportFailure ==
    (Done /\ hf_response.exc # "") =>
        /\ response = HTTPException(502, TransportDetail, hf_response.err)
        /\ hf_response.err # <<>>
        /\ Count(trace, "navigate") = 0
        /\ Count(trace, "extract") = 0
        /\ ex_pc = "idle"

C4_Witness ==
    /\ Done
    /\ hf_response.exc = "Timeout"
    /\ request.text # <<>>
    /\ ConfigComplete
    /\ response.status = 502
    /\ response.arg = <<"read timed out">>

\* ------------------------------------------------------------------------
\* C5
\* ------------------------------------------------------------------------

\* C5 (as stated): a strict JSON object text is returned unchanged, up to
\* surrounding whitespace.
C5_AsStated ==
    (ex_pc = "returned" /\ IsStrictJsonObject(ex_input)) =>
        candidate = Strip(ex_input)

\* free of what the repair rewrites or miscounts
Untouched(s) ==
    /\ \A p \in 1..Len(s) : s[p] # "'"
    /\ ~HasSub(s, NoneTok)
    /\ ~HasSub(s, Fence)
    /\ \A p \in 1..Len(s) : s[p] \in {"{", "}"} => ~InsideString(s, p)

\* C5 (amended): a strict JSON object text that contains no apostrophe, no
\* None, no code-fence marker and no brace inside a string is returned
\* unchanged, up to surrounding whitespace.
C5_Amended ==
    (ex_pc = "returned" /\ IsStrictJsonObject(ex_input) /\ Untouched(ex_input)) =>
        candidate = Strip(ex_input)

C5_Witness ==
    /\ ex_pc = "returned"
    /\ IsStrictJsonObject(ex_input)
    /\ Untouched(ex_input)
    /\ Len(Strip(ex_input)) > 2
    /\ ex_input # Strip(ex_input)
    /\ candidate = Strip(ex_input)

\* ------------------------------------------------------------------------
\* C6
\* ------------------------------------------------------------------------

\* C6: when the substituted text has a "{" whose count returns to zero, the
\* result is exactly the text from the first "{" through the first position
\* where the count is back at zero.
C6_FirstBalancedBlock ==
    (ex_pc = "returned" /\ ClosePositions(text) # {}) =>
        candidate = SubSeq(text, FirstBrace(text), Min(ClosePositions(text)))

C6_Witness ==
    /\ ex_pc = "returned"
    /\ ClosePositions(text) # {}
    /\ FirstBrace(text) > 1
    /\ Min(ClosePositions(text)) < Len(text)
    /\ Cardinality(ClosePositions(text)) > 1
    /\ candidate = <<"{", "}">>

\* ------------------------------------------------------------------------
\* C7
\* ------------------------------------------------------------------------

\* C7: when the text has a "{" but the count never returns to zero, the
\* result is the text from the first "{" to the end, trimmed.
C7_FromFirstBrace ==
    (ex_pc = "returned" /\ start # -1 /\ ClosePositions(text) = {}) =>
        candidate = Strip(SubSeq(text, FirstBrace(text), Len(text)))

\* ------------------------------------------------------------------------
\* C8
\* ------------------------------------------------------------------------

NoBraceReply ==
    /\ Done
    /\ Count(trace, "extract") = 1
    /\ raw_text # <<>>
    /\ \A p \in 1..Len(raw_text) : raw_text[p] # "{"

IsJsonScalar(s) ==
    \/ s = NullTok
    \/ /\ Len(s) >= 2
       /\ s[1] = "\""
       /\ s[Len(s)] = "\""
       /\ \A p \in 2..(Len(s) - 1) : s[p] \notin {"\"", "\n"}

\* s holds something the repair removes or replaces
Rewritten(s) ==
    \/ \E p \in 1..Len(s) : s[p] = "'"
    \/ HasSub(s, NoneTok)
    \/ HasSub(s, Fence)

C9_OneCall ==
    /\ Count(trace, "post") <= 1
    /\ \A n \in 1..Len(trace) :
         trace[n] = "post" =>
            /\ \E m \in 1..(n - 1) : trace[m] = "env_ok"
            /\ \E m \in 1..(n - 1) : trace[m] = "text_ok"
    /\ Done =>
         IF IsConfigError(response) \/ IsValidationError(response)
         THEN Count(trace, "post") = 0
         ELSE Count(trace, "post") = 1

C9_Witness ==
    /\ Done
    /\ hf_response.exc # ""
    /\ Count(trace, "post") = 1

\* ------------------------------------------------------------------------
\* C10
\* ------------------------------------------------------------------------

\* the scan returned a block (line 63), not the fall-through of line 65
ReturnedBlock ==
    /\ ex_pc = "returned"
    /\ start # -1
    /\ brace_count = 0

\* C10: during the scan the count is never negative and is at least 1 once
\* the first "{" is consumed, until the return; a returned block starts with
\* "{", ends with "}", has as many "{" as "}", and none of its non-empty
\* proper prefixes has.
C10_ScanInvariant ==
    /\ brace_count >= 0
    /\ (ex_pc = "scan" /\ i > start) => brace_count >= 1
    /\ (ex_pc = "scan") =>
          brace_count = Balance(text, start + 1, i)
    /\ ReturnedBlock =>
          /\ candidate[1] = "{"
          /\ candidate[Len(candidate)] = "}"
          /\ Balance(candidate, 1, Len(candidate)) = 0
          /\ \A n \in 1..(Len(candidate) - 1) : Balance(candidate, 1, n) >= 1

C10_Witness ==
    /\ ReturnedBlock
    /\ Len(candidate) > 2
    /\ Cardinality({ q \in 1..Len(candidate) : candidate[q] = "{" }) = 2

====
